---- MODULE Spec2Model ----
(***************************************************************************)
(* Model of priv/ml/anomaly_detector.py: the AnomalyDetector class (fit,   *)
(* predict, save, load with its trusted-path policy), the request          *)
(* dispatcher process_input and the entry point main.                      *)
(*                                                                         *)
(* Numbers are fixed point: feature values are integers, scaled features   *)
(* are in tenths, scores, thresholds, probabilities and confidences in     *)
(* thousandths, contamination in percent.  scikit-learn and joblib are     *)
(* third-party: they are modelled by their documented contracts            *)
(* (StandardScaler, IsolationForest.offset_/decision_function/predict,     *)
(* dump/load), the tree ensemble itself by a deterministic distance score. *)
(* Symbolic links are not modelled: Path.resolve() makes a path absolute   *)
(* and collapses "." and "..".  Every directory exists.  Operators are     *)
(* written as chains of calls that pass each computed value on as an       *)
(* argument, one call per step of the code.                                *)
(***************************************************************************)
EXTENDS Integers, Sequences, FiniteSets, TLC

----------------------------------------------------------------------------
(* Bounds of the model *)

\* longest run of ".." segments in a request's model_path
MaxUp == 4
\* most model files the file system holds at once
MaxFiles == 1
\* most cells of the feature arrays preprocessing is applied to on its own
MaxCells == 3
\* number of processes that load a model at the same time
MaxLoaders == 2

----------------------------------------------------------------------------
(* Paths.  A path component is [name, ext]: name is the sequence of the    *)
(* chunks of the text before the last dot, ext the text after it ("" when  *)
(* there is no dot).  A raw path is [abs, segs]; a resolved path is the    *)
(* sequence of its components from the root.                               *)

Dir(s) == [name |-> <<s>>, ext |-> ""]
File(s, e) == [name |-> <<s>>, ext |-> e]
DotDot == Dir("..")
Dot == Dir(".")

\* Path(__file__).parent : the directory of anomaly_detector.py
ScriptDir == <<Dir("app"), Dir("priv"), Dir("ml")>>
\* TRUSTED_MODEL_DIR = Path(__file__).parent / "models"
TRUSTED_MODEL_DIR == ScriptDir \o <<Dir("models")>>
\* priv_dir = Path(__file__).parent.parent
PrivDir == SubSeq(ScriptDir, 1, Len(ScriptDir) - 1)
\* the working directory of the process, against which Path.resolve()
\* makes a relative path absolute
Cwd == <<Dir("app")>>

RECURSIVE Collapse(_, _)
Collapse(segs, acc) ==
    IF segs = <<>> THEN acc
    ELSE LET c == Head(segs) IN
         IF c = Dot THEN Collapse(Tail(segs), acc)
         ELSE IF c = DotDot
              THEN Collapse(Tail(segs),
                            IF acc = <<>> THEN acc ELSE SubSeq(acc, 1, Len(acc) - 1))
              ELSE Collapse(Tail(segs), Append(acc, c))

\* Path(path).resolve()
Resolve(raw) == Collapse(raw.segs, IF raw.abs THEN <<>> ELSE Cwd)

\* PurePath.suffix of the final component: "" for a name with no dot or
\* with only a leading dot
Suffix(p) ==
    IF p = <<>> THEN ""
    ELSE LET c == p[Len(p)] IN IF c.name = <<>> THEN "" ELSE c.ext

\* child.is_relative_to(parent): parent's components are a prefix of child's
IsRelativeTo(child, parent) ==
    /\ Len(parent) <= Len(child)
    /\ SubSeq(child, 1, Len(parent)) = parent

RECURSIVE CommonPrefix(_, _)
CommonPrefix(a, b) ==
    IF a = <<>> \/ b = <<>> \/ Head(a) # Head(b) THEN <<>>
    ELSE <<Head(a)>> \o CommonPrefix(Tail(a), Tail(b))

\* os.path.commonpath([child, parent]) == parent (the Python < 3.9 branch)
CommonPathIsParent(child, parent) == CommonPrefix(child, parent) = parent

\* _is_path_within on resolved paths; hasIsRelativeTo tells the branch taken
TextStartsWith(child, parent, hasIsRelativeTo) ==
    /\ parent # <<>>
    /\ Len(parent) <= Len(child)
    /\ SubSeq(child, 1, Len(parent) - 1) = SubSeq(parent, 1, Len(parent) - 1)
    /\ Len(parent[Len(parent)].name) <= Len(child[Len(parent)].name)
    /\ SubSeq(child[Len(parent)].name, 1, Len(parent[Len(parent)].name))
          = parent[Len(parent)].name
_is_path_within(child, parent, hasIsRelativeTo) ==
    IF hasIsRelativeTo THEN IsRelativeTo(child, parent)
    ELSE CommonPathIsParent(child, parent)

----------------------------------------------------------------------------
(* Feature values.  A JSON cell is [k, v]: a number, NaN, Infinity,        *)
(* -Infinity (json.loads accepts the three literals), null, a string that  *)
(* float() parses to the number v, or a string it does not parse.  A       *)
(* features value is [dim, data]: a flat array of cells (dim 1) or an      *)
(* array of rows of cells (dim 2).                                         *)

Num(v) == [k |-> "num", v |-> v]
NaN == [k |-> "nan", v |-> 0]
PosInf == [k |-> "inf", v |-> 0]
NegInf == [k |-> "ninf", v |-> 0]
Null == [k |-> "null", v |-> 0]
StrNum(v) == [k |-> "strnum", v |-> v]
StrBad == [k |-> "strbad", v |-> 0]

Flat(cells) == [dim |-> 1, data |-> cells]
Rows(rows) == [dim |-> 2, data |-> rows]

\* every cell of a features value, in order
CellsOf(f) ==
    IF f.dim = 1 THEN {f.data[i] : i \in 1..Len(f.data)}
    ELSE UNION {{f.data[i][j] : j \in 1..Len(f.data[i])} : i \in 1..Len(f.data)}

\* the dtype np.array() gives the features: object as soon as one cell is
\* None, else a string dtype as soon as one cell is a string, else float64
DtypeOf(f) ==
    IF \E c \in CellsOf(f) : c.k = "null" THEN "object"
    ELSE IF \E c \in CellsOf(f) : c.k \in {"strnum", "strbad"} THEN "str"
    ELSE "float64"

\* to_numeric(val): None and whatever float() rejects become NaN
to_numeric(c) ==
    IF c.k = "null" THEN NaN
    ELSE IF c.k = "strbad" THEN NaN
    ELSE IF c.k = "strnum" THEN Num(c.v)
    ELSE c

\* ndarray.astype(np.float64) of one cell of a float64 or string array:
\* [ok, val]; a string float() rejects raises ValueError
AsFloat(c) ==
    IF c.k = "strbad" THEN [ok |-> FALSE, val |-> NaN]
    ELSE IF c.k = "strnum" THEN [ok |-> TRUE, val |-> Num(c.v)]
    ELSE [ok |-> TRUE, val |-> c]

\* np.nan_to_num(x, nan=0.0, posinf=0.0, neginf=0.0) of one cell
nan_to_num(c) == IF c.k = "num" THEN c.v ELSE 0

\* features.reshape(1, -1) when features.ndim == 1
ReshapeToColumn(f) ==
    IF f.dim = 1 THEN [i \in 1..Len(f.data) |-> <<f.data[i]>>] ELSE f.data
Reshape(f) == IF f.dim = 1 THEN <<f.data>> ELSE f.data

\* process_input, lines 232-252: the numeric matrix, or the ValueError of
\* astype on a string array holding an unparseable string
Coerce(rows, dtype) ==
    IF dtype = "object"
    THEN [exc |-> "", msg |-> "",
          X |-> [i \in 1..Len(rows) |->
                   [j \in 1..Len(rows[i]) |-> nan_to_num(to_numeric(rows[i][j]))]]]
    ELSE IF \E i \in 1..Len(rows) : \E j \in 1..Len(rows[i]) : ~AsFloat(rows[i][j]).ok
         THEN [exc |-> "ValueError", msg |-> "could_not_convert_string_to_float",
               X |-> <<>>]
         ELSE [exc |-> "", msg |-> "",
               X |-> [i \in 1..Len(rows) |->
                        [j \in 1..Len(rows[i]) |-> nan_to_num(AsFloat(rows[i][j]).val)]]]
Preprocess(f) == Coerce(Reshape(f), DtypeOf(f))

\* features.shape[1]
NCols(X) == IF X = <<>> THEN 0 ELSE Len(X[1])

----------------------------------------------------------------------------
(* scikit-learn, by contract.  Scaled features are in tenths, scores and   *)
(* offsets in thousandths, contamination in percent.                       *)

RECURSIVE SumSeq(_)
SumSeq(s) == IF s = <<>> THEN 0 ELSE Head(s) + SumSeq(Tail(s))

Abs(x) == IF x < 0 THEN -x ELSE x
Min(a, b) == IF a < b THEN a ELSE b

RECURSIVE SqrtFrom(_, _)
SqrtFrom(n, r) == IF (r + 1) * (r + 1) > n THEN r ELSE SqrtFrom(n, r + 1)
ISqrt(n) == SqrtFrom(n, 0)

Column(X, j) == [i \in 1..Len(X) |-> X[i][j]]

NoScaler == [state |-> "none", mean |-> <<>>, scale |-> <<>>]
\* StandardScaler()
NewScaler == [state |-> "unfitted", mean |-> <<>>, scale |-> <<>>]

\* StandardScaler.fit: per-feature mean_ and scale_, a zero scale replaced
\* by 1.0
Square(x) == x * x
ColMean(col) == (10 * SumSeq(col)) \div Len(col)
ColVar(col, mean) ==
    SumSeq([i \in 1..Len(col) |-> Square(10 * col[i] - mean)]) \div Len(col)
ZeroToOne(sd) == IF sd = 0 THEN 10 ELSE sd
ScalerOf(means, X) ==
    [state |-> "fitted", mean |-> means,
     scale |-> [j \in 1..NCols(X) |-> ZeroToOne(ISqrt(ColVar(Column(X, j), means[j])))]]
ScalerFit(X) == ScalerOf([j \in 1..NCols(X) |-> ColMean(Column(X, j))], X)

\* StandardScaler.transform with the stored mean_ and scale_
ScalerTransform(sc, X) ==
    [i \in 1..Len(X) |->
       [j \in 1..Len(X[i]) |-> ((10 * X[i][j] - sc.mean[j]) * 10) \div sc.scale[j]]]

NoModel ==
    [state |-> "none", n_estimators |-> 0, contamination |-> 0,
     train |-> <<>>, offset |-> 0]
\* IsolationForest(n_estimators=..., contamination=..., random_state=42):
\* the constructor validates nothing
NewForest(n_estimators, contamination) ==
    [state |-> "unfitted", n_estimators |-> n_estimators,
     contamination |-> contamination, train |-> <<>>, offset |-> 0]

\* IsolationForest parameter validation at fit: n_estimators >= 1 and
\* contamination in (0, 0.5]
ForestParamsOk(m) ==
    /\ m.n_estimators >= 1
    /\ m.contamination > 0
    /\ m.contamination <= 50

Dist(a, b) == SumSeq([j \in 1..Len(a) |-> Abs(a[j] - b[j])])

\* IsolationForest.score_samples of one scaled sample: in [-1, 0), lower
\* for a sample far from the training data; a function of the training
\* data alone, the random state being fixed
ScoreSamples(train, x) ==
    -Min(950, 400 + 20 * (SumSeq([i \in 1..Len(train) |-> Dist(train[i], x)])
                            \div Len(train)))

RECURSIVE Insert(_, _)
Insert(v, s) ==
    IF s = <<>> THEN <<v>>
    ELSE IF v <= Head(s) THEN <<v>> \o s
    ELSE <<Head(s)>> \o Insert(v, Tail(s))

RECURSIVE Sorted(_)
Sorted(s) == IF s = <<>> THEN <<>> ELSE Insert(Head(s), Sorted(Tail(s)))

\* np.percentile(scores, q) with linear interpolation, q in percent
Interpolate(s, lo, frac) ==
    IF frac = 0 THEN s[lo + 1]
    ELSE s[lo + 1] + ((s[lo + 2] - s[lo + 1]) * frac) \div 100
Percentile(scores, q) ==
    Interpolate(Sorted(scores), ((Len(scores) - 1) * q) \div 100,
                ((Len(scores) - 1) * q) % 100)

\* IsolationForest.fit: offset_ is the contamination percentile of the
\* training scores
ForestFit(m, scaled) ==
    [m EXCEPT !.state = "fitted", !.train = scaled,
              !.offset = Percentile([i \in 1..Len(scaled) |->
                                       ScoreSamples(scaled, scaled[i])],
                                    m.contamination)]

\* IsolationForest.decision_function = score_samples - offset_
DecisionFunction(m, x) == ScoreSamples(m.train, x) - m.offset

\* IsolationForest.predict: -1 where decision_function < 0, else 1
ForestPredict(m, x) == IF DecisionFunction(m, x) < 0 THEN -1 ELSE 1

----------------------------------------------------------------------------
(* class AnomalyDetector.  A call returns [exc, msg, ...]: exc is "" for a *)
(* normal return, else the type of the exception raised; an exceptional    *)
(* return carries no value.                                                *)

\* AnomalyDetector.__init__
NewDetector(contamination, n_estimators) ==
    [contamination |-> contamination, n_estimators |-> n_estimators,
     model |-> NoModel, scaler |-> NoScaler, feature_names |-> <<>>,
     is_fitted |-> FALSE]

\* [f"feature_{i}" for i in range(features.shape[1])]
SynthNames(X) == [j \in 1..NCols(X) |-> <<"feature_", j - 1>>]

\* AnomalyDetector.fit: the detector as the call leaves it, also when
\* scikit-learn raises half-way
\* fit, lines 69-78: d holds the fitted scaler and the new forest
FitForest(d, X) ==
    IF ~ForestParamsOk(d.model)
    THEN [exc |-> "ValueError", msg |-> "invalid_parameter", det |-> d]
    ELSE [exc |-> "", msg |-> "",
          det |-> [d EXCEPT !.model = ForestFit(d.model, ScalerTransform(d.scaler, X)),
                            !.is_fitted = TRUE]]

\* fit, lines 65-67: d holds the feature names and the new scaler
FitScaler(d, X) ==
    IF Len(X) = 0 \/ NCols(X) = 0
    THEN [exc |-> "ValueError", msg |-> "empty_array", det |-> d]
    ELSE FitForest([d EXCEPT !.scaler = ScalerFit(X),
                             !.model = NewForest(d.n_estimators, d.contamination)],
                   X)

Fit(det, X, names) ==
    FitScaler([det EXCEPT !.feature_names = IF names # <<>> THEN names
                                            ELSE SynthNames(X),
                          !.scaler = NewScaler],
              X)

\* 1 / (1 + np.exp(raw_scores * 1.0)), raw in thousandths, result in
\* thousandths; exp by its series to the fourth power, on hundredths
ExpSeries(x) ==
    10000 + 100 * x + (x * x) \div 2 + (x * x * x) \div 600
    + (x * x * x * x) \div 240000
ExpitOfScore(raw) == 10000000 \div (10000 + ExpSeries((0 - raw) \div 10))
Expit(raw) == 10000000 \div (10000 + ExpSeries(raw \div 10))

\* np.minimum(np.abs(raw_scores - threshold) / 2, 1.0)
Confidence(raw, threshold) == Min(Abs(raw - threshold) \div 2, 1000)

\* the dictionary predict returns
ResultNoConfidence(predictions, raw_scores, threshold) ==
    [predictions |-> predictions,
     anomaly_scores |-> [i \in 1..Len(raw_scores) |-> Expit(raw_scores[i])],
     raw_scores |-> raw_scores,
     threshold |-> threshold]
ResultOf(predictions, raw_scores, threshold) ==
    [predictions |-> predictions,
     anomaly_scores |-> [i \in 1..Len(raw_scores) |-> Expit(raw_scores[i])],
     confidence |-> [i \in 1..Len(raw_scores) |->
                       Confidence(raw_scores[i], threshold)],
     raw_scores |-> raw_scores,
     threshold |-> threshold]
ScoreScaled(model, scaled) ==
    ResultOf([i \in 1..Len(scaled) |-> ForestPredict(model, scaled[i])],
             [i \in 1..Len(scaled) |-> DecisionFunction(model, scaled[i])],
             model.offset)
PredictResult(det, X) == ScoreScaled(det.model, ScalerTransform(det.scaler, X))

\* AnomalyDetector.predict
PredictNoGuard(det, X) ==
    IF det.scaler.state = "none"
    THEN [exc |-> "AttributeError", msg |-> "none_has_no_transform"]
    ELSE IF det.scaler.state = "unfitted"
    THEN [exc |-> "NotFittedError", msg |-> "scaler_not_fitted"]
    ELSE IF Len(X) = 0 \/ NCols(X) # Len(det.scaler.mean)
    THEN [exc |-> "ValueError", msg |-> "feature_mismatch"]
    ELSE IF det.model.state = "none"
    THEN [exc |-> "AttributeError", msg |-> "none_has_no_predict"]
    ELSE IF det.model.state = "unfitted"
    THEN [exc |-> "NotFittedError", msg |-> "forest_not_fitted"]
    ELSE [exc |-> "", msg |-> "", res |-> PredictResult(det, X)]
Predict(det, X) ==
    IF ~det.is_fitted
    THEN [exc |-> "ValueError", msg |-> "not_fitted"]
    ELSE IF det.scaler.state = "none"
    THEN [exc |-> "AttributeError", msg |-> "none_has_no_transform"]
    ELSE IF det.scaler.state = "unfitted"
    THEN [exc |-> "NotFittedError", msg |-> "scaler_not_fitted"]
    ELSE IF Len(X) = 0 \/ NCols(X) # Len(det.scaler.mean)
    THEN [exc |-> "ValueError", msg |-> "feature_mismatch"]
    ELSE IF det.model.state = "none"
    THEN [exc |-> "AttributeError", msg |-> "none_has_no_predict"]
    ELSE IF det.model.state = "unfitted"
    THEN [exc |-> "NotFittedError", msg |-> "forest_not_fitted"]
    ELSE [exc |-> "", msg |-> "", res |-> PredictResult(det, X)]

\* the dictionary save hands to joblib.dump
Bundle(det) ==
    [model |-> det.model, scaler |-> det.scaler,
     feature_names |-> det.feature_names,
     contamination |-> det.contamination, n_estimators |-> det.n_estimators]

\* a file that is no persisted model
ForeignFile == [kind |-> "foreign", data |-> Bundle(NewDetector(0, 0))]
ModelFile(det) == [kind |-> "model", data |-> Bundle(det)]

\* AnomalyDetector.save; the file system maps a resolved path to its file
SaveTrustedOnly(det, files, path) ==
    IF ~det.is_fitted
    THEN [exc |-> "ValueError", msg |-> "unfitted_model", files |-> files]
    ELSE IF ~(\/ IsRelativeTo(Resolve(path), TRUSTED_MODEL_DIR)
              \/ IsRelativeTo(Resolve(path), PrivDir) /\ Suffix(Resolve(path)) = "joblib")
    THEN [exc |-> "ValueError", msg |-> "untrusted_path", files |-> files]
    ELSE [exc |-> "", msg |-> "",
          files |-> (Resolve(path) :> ModelFile(det)) @@ files]
SaveNoGuard(det, files, path) ==
    [exc |-> "", msg |-> "", files |-> (Resolve(path) :> ModelFile(det)) @@ files]
Save(det, files, path) ==
    IF ~det.is_fitted
    THEN [exc |-> "ValueError", msg |-> "unfitted_model", files |-> files]
    ELSE [exc |-> "", msg |-> "",
          files |-> (Resolve(path) :> ModelFile(det)) @@ files]

\* load, lines 176-181
TrustedByExtension(resolved, py39) ==
    \/ _is_path_within(resolved, TRUSTED_MODEL_DIR, py39)
    \/ Suffix(resolved) = "joblib"
is_trusted(resolved, py39) ==
    \/ _is_path_within(resolved, TRUSTED_MODEL_DIR, py39)
    \/ /\ _is_path_within(resolved, PrivDir, py39)
       /\ Suffix(resolved) = "joblib"

\* load, lines 192-201: the detector built from the loaded dictionary
FromBundleNoScaler(data) ==
    [NewDetector(data.contamination, data.n_estimators)
       EXCEPT !.model = data.model,
              !.feature_names = data.feature_names, !.is_fitted = TRUE]
FromBundle(data) ==
    [NewDetector(data.contamination, data.n_estimators)
       EXCEPT !.model = data.model, !.scaler = data.scaler,
              !.feature_names = data.feature_names, !.is_fitted = TRUE]

\* AnomalyDetector.load; read tells whether joblib.load opened the file
LoadExistenceFirst(files, resolved, py39) ==
    IF resolved \notin DOMAIN files
    THEN [exc |-> "FileNotFoundError", msg |-> "model_not_found", read |-> FALSE]
    ELSE IF ~is_trusted(resolved, py39)
    THEN [exc |-> "ValueError", msg |-> "untrusted_path", read |-> FALSE]
    ELSE IF files[resolved].kind # "model"
    THEN [exc |-> "UnpicklingError", msg |-> "not_a_model", read |-> TRUE]
    ELSE [exc |-> "", msg |-> "", read |-> TRUE,
          det |-> FromBundle(files[resolved].data)]
LoadResolved(files, resolved, py39) ==
    IF ~is_trusted(resolved, py39)
    THEN [exc |-> "ValueError", msg |-> "untrusted_path", read |-> FALSE]
    ELSE IF resolved \notin DOMAIN files
    THEN [exc |-> "FileNotFoundError", msg |-> "model_not_found", read |-> FALSE]
    ELSE IF files[resolved].kind # "model"
    THEN [exc |-> "UnpicklingError", msg |-> "not_a_model", read |-> TRUE]
    ELSE [exc |-> "", msg |-> "", read |-> TRUE,
          det |-> FromBundle(files[resolved].data)]
Load(files, path, py39) == LoadResolved(files, Resolve(path), py39)

----------------------------------------------------------------------------
(* process_input and main.  A request is the decoded JSON object; a key it *)
(* omits holds the Absent value of its field.                              *)

AbsentAction == "<absent>"
AbsentFeatures == [dim |-> 0, data |-> <<>>]
AbsentNumber == 0 - 1
\* a model_path that is absent, None or "" (all three are falsy)
NoPath == [abs |-> FALSE, segs |-> <<>>]

\* input_data.get("contamination", 0.01), in percent
DefaultContamination == 1
\* input_data.get("n_estimators", 100)
DefaultNEstimators == 100

\* the truth value of model_path
Truthy(path) == path # NoPath

\* what process_input did besides returning: the files joblib.load opened,
\* the files joblib.dump wrote, whether a fit completed
Effects(reads, writes, fitted) ==
    [reads |-> reads, writes |-> writes, fitted |-> fitted]
NoEffects == Effects({}, {}, FALSE)

Raise(r, files, eff) == [exc |-> r.exc, msg |-> r.msg, files |-> files, eff |-> eff]
Return(out, files, eff) ==
    [exc |-> "", msg |-> "", files |-> files, eff |-> eff, out |-> out]

LoadEffects(loaded, path) ==
    Effects(IF loaded.read THEN {Resolve(path)} ELSE {}, {}, FALSE)

\* lines 225-227
LoadAction(loaded, path, files) ==
    IF loaded.exc # "" THEN Raise(loaded, files, LoadEffects(loaded, path))
    ELSE Return([status |-> "loaded", feature_names |-> loaded.det.feature_names],
                files, LoadEffects(loaded, path))

\* lines 123-126 and 256-261
PredictFitted(r, X, files) ==
    IF r.exc # "" THEN Raise(r, files, Effects({}, {}, TRUE))
    ELSE Return(r.res @@ [status |-> "success", n_samples |-> Len(X),
                          n_features |-> NCols(X)],
                files, Effects({}, {}, TRUE))
FitPredictWarm(fitted, X, files) ==
    IF fitted.exc # "" THEN Raise(fitted, files, NoEffects)
    ELSE IF {p \in DOMAIN files : files[p].kind = "model"} = {}
    THEN PredictFitted(Predict(fitted.det, X), X, files)
    ELSE PredictFitted(
             Predict(FromBundle(files[CHOOSE p \in DOMAIN files :
                                          files[p].kind = "model"].data), X),
             X, files)
FitPredictUnguarded(fitted, X, files) ==
    PredictFitted(Predict(fitted.det, X), X, files)
FitPredictAction(fitted, X, files) ==
    IF fitted.exc # "" THEN Raise(fitted, files, NoEffects)
    ELSE PredictFitted(Predict(fitted.det, X), X, files)

\* lines 263-272
FitSaved(saved, X, path, files) ==
    IF saved.exc # "" THEN Raise(saved, files, Effects({}, {}, TRUE))
    ELSE Return([status |-> "fitted", n_samples |-> Len(X),
                 n_features |-> NCols(X), saved_to |-> path],
                saved.files, Effects({}, {Resolve(path)}, TRUE))
FitAction(fitted, X, path, files) ==
    IF fitted.exc # "" THEN Raise(fitted, files, NoEffects)
    ELSE IF Truthy(path) THEN FitSaved(Save(fitted.det, files, path), X, path, files)
    ELSE Return([status |-> "fitted", n_samples |-> Len(X),
                 n_features |-> NCols(X), saved_to |-> path],
                files, Effects({}, {}, TRUE))

\* lines 274-283
PredictLoaded(r, X, files, eff) ==
    IF r.exc # "" THEN Raise(r, files, eff)
    ELSE Return(r.res @@ [status |-> "success", n_samples |-> Len(X)], files, eff)
PredictAction(loaded, X, path, files) ==
    IF loaded.exc # "" THEN Raise(loaded, files, LoadEffects(loaded, path))
    ELSE PredictLoaded(Predict(loaded.det, X), X, files, LoadEffects(loaded, path))

\* lines 285-288
SaveSaved(saved, path, files) ==
    IF saved.exc # "" THEN Raise(saved, files, Effects({}, {}, TRUE))
    ELSE Return([status |-> "saved", path |-> path],
                saved.files, Effects({}, {Resolve(path)}, TRUE))
SaveAction(fitted, path, files) ==
    IF fitted.exc # "" THEN Raise(fitted, files, NoEffects)
    ELSE SaveSaved(Save(fitted.det, files, path), path, files)

\* lines 254-291: the dispatch on the action, X being the numeric matrix
DispatchSaveUnchecked(action, X, detector, names, path, files, py39) ==
    IF action = "fit_predict"
    THEN FitPredictAction(Fit(detector, X, names), X, files)
    ELSE IF action = "fit"
    THEN FitAction(Fit(detector, X, names), X, path, files)
    ELSE IF action = "predict"
    THEN IF ~Truthy(path)
         THEN Return([error |-> "no_model",
                      message |-> "Provide model_path for predict action"],
                     files, NoEffects)
         ELSE PredictAction(Load(files, path, py39), X, path, files)
    ELSE IF action = "save"
    THEN SaveAction(Fit(detector, X, names), path, files)
    ELSE Return([error |-> "invalid_action", message |-> <<"Unknown action", action>>],
                files, NoEffects)
Dispatch(action, X, detector, names, path, files, py39) ==
    IF action = "fit_predict"
    THEN FitPredictAction(Fit(detector, X, names), X, files)
    ELSE IF action = "fit"
    THEN FitAction(Fit(detector, X, names), X, path, files)
    ELSE IF action = "predict"
    THEN IF ~Truthy(path)
         THEN Return([error |-> "no_model",
                      message |-> "Provide model_path for predict action"],
                     files, NoEffects)
         ELSE PredictAction(Load(files, path, py39), X, path, files)
    ELSE IF action = "save" /\ Truthy(path)
    THEN SaveAction(Fit(detector, X, names), path, files)
    ELSE Return([error |-> "invalid_action", message |-> <<"Unknown action", action>>],
                files, NoEffects)

\* lines 232-254
Convert(action, pre, detector, names, path, files, py39) ==
    IF pre.exc # "" THEN Raise(pre, files, NoEffects)
    ELSE Dispatch(action, pre.X, detector, names, path, files, py39)

\* len(features) == 0
NeverEmpty(features) == FALSE
NoSamples(features) == Len(features.data) = 0

\* lines 225-230
HandleValidating(action, features, names, contamination, n_estimators, path, files, py39) ==
    IF action = "load" /\ Truthy(path)
    THEN LoadAction(Load(files, path, py39), path, files)
    ELSE IF NoSamples(features)
    THEN Return([error |-> "no_features", message |-> "No feature data provided"],
                files, NoEffects)
    ELSE IF ~ForestParamsOk(NewForest(n_estimators, contamination))
    THEN Raise([exc |-> "ValueError", msg |-> "invalid_parameter"], files, NoEffects)
    ELSE Convert(action, Preprocess(features),
                 NewDetector(contamination, n_estimators), names, path, files, py39)
Handle(action, features, names, contamination, n_estimators, path, files, py39) ==
    IF action = "load" /\ Truthy(path)
    THEN LoadAction(Load(files, path, py39), path, files)
    ELSE IF NoSamples(features)
    THEN Return([error |-> "no_features", message |-> "No feature data provided"],
                files, NoEffects)
    ELSE Convert(action, Preprocess(features),
                 NewDetector(contamination, n_estimators), names, path, files, py39)

\* process_input: [exc, msg, files, eff] and, on a normal return, out
process_input(req, files, py39) ==
    Handle(IF req.action = AbsentAction THEN "fit_predict" ELSE req.action,
           IF req.features = AbsentFeatures THEN Flat(<<>>) ELSE req.features,
           req.feature_names,
           IF req.contamination = AbsentNumber
           THEN DefaultContamination ELSE req.contamination,
           IF req.n_estimators = AbsentNumber
           THEN DefaultNEstimators ELSE req.n_estimators,
           req.model_path, files, py39)

\* what stdin holds: nothing but white space, text that is no JSON, a JSON
\* value that is no object, or a request object
EmptyStdin == [kind |-> "empty"]
BadJson == [kind |-> "badjson"]
NonObject == [kind |-> "nonobject"]
RequestOn(req) == [kind |-> "request", req |-> req]

\* the outcome of one run of the script: what it printed, its exit status,
\* whether an exception left main, the file system and the effects
Outcome(printed, status, files, eff) ==
    [stdout |-> printed, exit |-> status, raised |-> FALSE,
     files |-> files, eff |-> eff]

\* main, lines 305-318: print the result, or the error of an exception
ReportUncaught(r) ==
    IF r.exc # ""
    THEN [stdout |-> <<>>, exit |-> 1, raised |-> TRUE,
          files |-> r.files, eff |-> r.eff]
    ELSE Outcome(<<r.out>>, 0, r.files, r.eff)
ReportFailure(r) ==
    IF r.exc # ""
    THEN Outcome(<<[error |-> "processing_error", message |-> r.msg,
                    type |-> r.exc]>>,
                 1, r.files, r.eff)
    ELSE Outcome(<<r.out>>, 0, r.files, r.eff)
Report(r) ==
    IF r.exc # ""
    THEN Outcome(<<[error |-> "processing_error", message |-> r.msg,
                    type |-> r.exc]>>,
                 0, r.files, r.eff)
    ELSE Outcome(<<r.out>>, 0, r.files, r.eff)

\* the import guard (lines 25-34) and main
main(input, files, deps, py39) ==
    IF ~deps
    THEN Outcome(<<[error |-> "missing_dependency",
                    message |-> "Required library not installed"]>>,
                 1, files, NoEffects)
    ELSE IF input.kind = "empty"
    THEN Outcome(<<[error |-> "empty_input", message |-> "No input provided"]>>,
                 0, files, NoEffects)
    ELSE IF input.kind = "badjson"
    THEN Outcome(<<[error |-> "invalid_json", message |-> "JSONDecodeError"]>>,
                 0, files, NoEffects)
    ELSE IF input.kind = "nonobject"
    THEN Outcome(<<[error |-> "processing_error", message |-> "has_no_attribute_get",
                    type |-> "AttributeError"]>>,
                 0, files, NoEffects)
    ELSE Report(process_input(input.req, files, py39))

----------------------------------------------------------------------------
(* The inputs *)

RECURSIVE Ups(_)
Ups(k) == IF k = 0 THEN <<>> ELSE <<DotDot>> \o Ups(k - 1)

HiddenJoblib == [name |-> <<>>, ext |-> "joblib"]
ModelsEvil == [name |-> <<"models", "_evil">>, ext |-> ""]

PathTails ==
    {<<File("m", "joblib")>>, <<File("m", "bin")>>, <<HiddenJoblib>>,
     <<Dir("etc"), File("passwd", "joblib")>>,
     <<ModelsEvil, File("x", "bin")>>}

\* model paths: <trusted>/../../<tail> with up to MaxUp "..", and relative ones
RawPaths ==
    {[abs |-> TRUE, segs |-> TRUSTED_MODEL_DIR \o Ups(k) \o t] :
        k \in 0..MaxUp, t \in PathTails}
    \cup {[abs |-> FALSE, segs |-> <<Dir("priv"), Dir("ml"), Dir("models"),
                                     File("m", "joblib")>>],
          [abs |-> FALSE, segs |-> <<Dot, Dir("priv"), File("m", "bin")>>],
          [abs |-> FALSE, segs |-> <<DotDot, Dir("etc"), File("passwd", "joblib")>>]}

\* a file outside the application that is no model
ForeignPath == <<Dir("etc"), File("passwd", "joblib")>>

TrustedPath == [abs |-> TRUE, segs |-> TRUSTED_MODEL_DIR \o <<File("m", "joblib")>>]

Clean1 == Rows(<<<<Num(0)>>, <<Num(0)>>, <<Num(9)>>>>)
Clean2 == Rows(<<<<Num(0), NegInf>>, <<Num(4), Num(1)>>>>)

\* feature arrays of requests
FeatureInputs ==
    {Clean1, Clean2,
     Rows(<<<<Num(1), Null, Num(3)>>>>),
     Rows(<<<<Num(1), StrBad>>, <<Num(2), Num(0)>>>>),
     Rows(<<<<Null, StrBad>>, <<NaN, StrNum(2)>>>>),
     Rows(<<<<>>>>),
     Flat(<<Num(7), PosInf>>),
     Flat(<<Num(1), Num(2), Num(3)>>),
     Flat(<<>>),
     AbsentFeatures}

ActionInputs ==
    {"fit", "predict", "fit_predict", "save", "load", "explain", AbsentAction}

\* requests that vary the model path
PathRequests ==
    [action : {"fit", "predict", "save", "load"}, features : {Clean1},
     feature_names : {<<>>}, contamination : {10}, n_estimators : {2},
     model_path : RawPaths \cup {NoPath}]

\* requests that vary everything but the model path
DataRequests ==
    [action : ActionInputs, features : FeatureInputs,
     feature_names : {<<>>, <<<<"a">>>>},
     contamination : {AbsentNumber, 0, 10},
     n_estimators : {AbsentNumber, 0},
     model_path : {NoPath, TrustedPath}]

\* what callers of the class pass: numeric matrices, names, hyperparameters
ApiMatrices == {<<<<0>>, <<0>>, <<9>>>>, <<<<0, 0>>, <<4, 1>>>>, <<<<5>>>>}
ApiNames == {<<>>, <<<<"a">>>>}
ApiContaminations == {10}
ApiEstimators == {0, 2}
UntrustedPath == [abs |-> TRUE, segs |-> PrivDir \o <<File("m", "bin")>>]
ApiPaths == {TrustedPath, UntrustedPath}

Cells == {Num(1), NaN, PosInf, NegInf, Null, StrNum(3), StrBad}

\* the features values of r rows by c columns, and the flat ones of c cells
RowsOfShape(r, c) == {Rows(m) : m \in [1..r -> [1..c -> Cells]]}
FlatOfLength(c) == {Flat(m) : m \in [1..c -> Cells]}
Shapes == {sh \in (1..MaxCells) \X (1..MaxCells) : sh[1] * sh[2] <= MaxCells}
RawFeatures ==
    UNION {RowsOfShape(sh[1], sh[2]) : sh \in Shapes}
    \cup UNION {FlatOfLength(c) : c \in 1..MaxCells}

StdinOf(requests) ==
    {EmptyStdin, BadJson, NonObject} \cup {RequestOn(r) : r \in requests}

----------------------------------------------------------------------------
(* The state *)

VARIABLES
    fs,       \* the file system: resolved path -> file
    env,      \* the installation: [deps, py39]
    pc,       \* "idle": no process runs; "done": a process has run and exited
    stdin,    \* what the last process read
    run,      \* the outcome of the last process: [stdout, exit, raised, eff]
    det,      \* a detector object held by a caller of the class
    call,     \* the last method called on it, with its arguments
    ret,      \* what that call returned or raised
    origin,   \* resolved path -> the detector whose save wrote the file
    raw,      \* a features value handed to preprocessing
    cooked,   \* what preprocessing made of it
    loaders   \* the processes that run at the same time: [at, req, loaded, out]

vars == <<fs, env, pc, stdin, run, det, call, ret, origin, raw, cooked, loaders>>

procVars == <<pc, stdin, run>>
apiVars == <<det, call, ret, origin>>
preVars == <<raw, cooked>>
loadVars == <<loaders>>

\* a process that has not started; at is the line of load it stands before
Loaders == 1..MaxLoaders
NotStarted ==
    [at |-> "start",
     req |-> [action |-> AbsentAction, features |-> AbsentFeatures,
              feature_names |-> <<>>, contamination |-> AbsentNumber,
              n_estimators |-> AbsentNumber, model_path |-> NoPath],
     loaded |-> [exc |-> "pending", msg |-> "", read |-> FALSE],
     out |-> <<>>]

NoRun == [stdout |-> <<>>, exit |-> 0, raised |-> FALSE, eff |-> NoEffects]
NoCall == [op |-> "none", X |-> <<>>, path |-> NoPath]
NoRet == [exc |-> "", msg |-> ""]

\* preprocessing has not run yet
Pending == [exc |-> "pending", msg |-> "", X |-> <<>>]

ModelFilesOf(files) == {p \in DOMAIN files : files[p].kind = "model"}

InitCommon ==
    /\ fs = (ForeignPath :> ForeignFile)
    /\ pc = "idle"
    /\ stdin = EmptyStdin
    /\ run = NoRun
    /\ det = NewDetector(DefaultContamination, DefaultNEstimators)
    /\ call = NoCall
    /\ ret = NoRet
    /\ origin = <<>>
    /\ raw = AbsentFeatures
    /\ cooked = Pending
    /\ loaders = [p \in Loaders |-> NotStarted]

----------------------------------------------------------------------------
(* One process per request: python3 anomaly_detector.py < request *)

Finish(input, o) ==
    /\ pc = "idle"
    /\ Cardinality(ModelFilesOf(o.files)) <= MaxFiles
    /\ pc' = "done"
    /\ stdin' = input
    /\ run' = [stdout |-> o.stdout, exit |-> o.exit, raised |-> o.raised,
               eff |-> o.eff]
    /\ fs' = o.files
    /\ UNCHANGED <<env, apiVars, preVars, loadVars>>

Invoke(input) == Finish(input, main(input, fs, env.deps, env.py39))

\* the process is gone; only the files stay
Exit ==
    /\ pc = "done"
    /\ pc' = "idle"
    /\ stdin' = EmptyStdin
    /\ run' = NoRun
    /\ UNCHANGED <<fs, env, apiVars, preVars, loadVars>>

----------------------------------------------------------------------------
(* A caller of the class: one detector object, the methods called on it *)

Called(op, X, path) == [op |-> op, X |-> X, path |-> path]
Outcome2(r) == [exc |-> r.exc, msg |-> r.msg]

ApiNew(contamination, n_estimators) ==
    /\ det' = NewDetector(contamination, n_estimators)
    /\ call' = Called("new", <<>>, NoPath)
    /\ ret' = NoRet
    /\ UNCHANGED <<fs, env, origin, procVars, preVars, loadVars>>

Fitted(r, X) ==
    /\ det' = r.det
    /\ call' = Called("fit", X, NoPath)
    /\ ret' = Outcome2(r)
    /\ UNCHANGED <<fs, env, origin, procVars, preVars, loadVars>>
ApiFit(X, names) == Fitted(Fit(det, X, names), X)

\* predict with scaler.fit_transform in the place of scaler.transform
ApiPredictRefit(X) ==
    /\ call' = Called("predict", X, NoPath)
    /\ ret' = Predict(det, X)
    /\ det' = IF Predict(det, X).exc = "" THEN [det EXCEPT !.scaler = ScalerFit(X)]
              ELSE det
    /\ UNCHANGED <<fs, env, origin, procVars, preVars, loadVars>>
ApiPredict(X) ==
    /\ call' = Called("predict", X, NoPath)
    /\ ret' = Predict(det, X)
    /\ UNCHANGED <<fs, env, det, origin, procVars, preVars, loadVars>>

Saved(r, path) ==
    /\ Cardinality(ModelFilesOf(r.files)) <= MaxFiles
    /\ fs' = r.files
    /\ origin' = IF r.exc = "" THEN (Resolve(path) :> det) @@ origin ELSE origin
    /\ call' = Called("save", <<>>, path)
    /\ ret' = Outcome2(r)
    /\ UNCHANGED <<env, det, procVars, preVars, loadVars>>
ApiSave(path) == Saved(Save(det, fs, path), path)

\* detector = AnomalyDetector.load(path): the caller's variable is
\* rebound only when load returns
Loaded(r, path) ==
    /\ det' = IF r.exc = "" THEN r.det ELSE det
    /\ call' = Called("load", <<>>, path)
    /\ ret' = [exc |-> r.exc, msg |-> r.msg, read |-> r.read]
    /\ UNCHANGED <<fs, env, origin, procVars, preVars, loadVars>>
ApiLoad(path) == Loaded(Load(fs, path, env.py39), path)

InitApi == InitCommon /\ env = [deps |-> TRUE, py39 |-> TRUE]
NextApi ==
    \/ \E c \in ApiContaminations, n \in ApiEstimators : ApiNew(c, n)
    \/ \E X \in ApiMatrices, names \in ApiNames : ApiFit(X, names)
    \/ \E X \in ApiMatrices : ApiPredict(X)
    \/ \E path \in ApiPaths : ApiSave(path)
    \/ \E path \in ApiPaths : ApiLoad(path)
SpecApi == InitApi /\ [][NextApi]_vars

----------------------------------------------------------------------------
(* Preprocessing on its own: process_input, lines 229-252, applied to one  *)
(* features value                                                          *)

ApplyPreprocess ==
    /\ cooked = Pending
    /\ Len(raw.data) # 0
    /\ cooked' = Preprocess(raw)
    /\ UNCHANGED <<fs, env, raw, procVars, apiVars, loadVars>>

InitPre ==
    /\ fs = (ForeignPath :> ForeignFile)
    /\ env = [deps |-> TRUE, py39 |-> TRUE]
    /\ pc = "idle"
    /\ stdin = EmptyStdin
    /\ run = NoRun
    /\ det = NewDetector(DefaultContamination, DefaultNEstimators)
    /\ call = NoCall
    /\ ret = NoRet
    /\ origin = <<>>
    /\ raw \in RawFeatures
    /\ cooked = Pending
    /\ loaders = [p \in Loaders |-> NotStarted]
NextPre == ApplyPreprocess
SpecPre == InitPre /\ [][NextPre]_vars

----------------------------------------------------------------------------
(* Processes that run at the same time, each with a load request or a      *)
(* predict request with a model_path.  A process takes the steps of        *)
(* AnomalyDetector.load one at a time: the trust check, the existence      *)
(* check, joblib.load, then its answer; the steps of different processes   *)
(* interleave in every order.  The file system holds a model that an       *)
(* earlier fit request saved.                                              *)

\* the same file by an absolute and by a relative path, a trusted path with
\* no file, an untrusted path
LoadRequests ==
    [action : {"load", "predict"}, features : {Clean1}, feature_names : {<<>>},
     contamination : {10}, n_estimators : {2},
     model_path : {TrustedPath, UntrustedPath,
                   [abs |-> FALSE, segs |-> <<Dir("priv"), Dir("ml"), Dir("models"),
                                              File("m", "joblib")>>],
                   [abs |-> TRUE, segs |-> TRUSTED_MODEL_DIR \o <<File("n", "joblib")>>]}]

\* process_input up to its call of load (lines 218-226, or 229-276)
BeginLoad(p, req) ==
    /\ loaders[p].at = "start"
    /\ loaders' = [loaders EXCEPT ![p] = [loaders[p] EXCEPT !.req = req, !.at = "trust"]]
    /\ UNCHANGED <<fs, env, procVars, apiVars, preVars>>

\* load, lines 167-187
TrustStep(p) ==
    /\ loaders[p].at = "trust"
    /\ loaders' = [loaders EXCEPT ![p] =
          IF is_trusted(Resolve(loaders[p].req.model_path), env.py39)
          THEN [loaders[p] EXCEPT !.at = "exists"]
          ELSE [loaders[p] EXCEPT !.at = "answer",
                  !.loaded = [exc |-> "ValueError", msg |-> "untrusted_path",
                              read |-> FALSE]]]
    /\ UNCHANGED <<fs, env, procVars, apiVars, preVars>>

\* load, lines 189-190
ExistsStep(p) ==
    /\ loaders[p].at = "exists"
    /\ loaders' = [loaders EXCEPT ![p] =
          IF Resolve(loaders[p].req.model_path) \in DOMAIN fs
          THEN [loaders[p] EXCEPT !.at = "read"]
          ELSE [loaders[p] EXCEPT !.at = "answer",
                  !.loaded = [exc |-> "FileNotFoundError", msg |-> "model_not_found",
                              read |-> FALSE]]]
    /\ UNCHANGED <<fs, env, procVars, apiVars, preVars>>

\* load, lines 192-201: joblib.load opens the file for reading; what it
\* returns and the file system it leaves
ReadConsume(files, resolved) ==
    IF resolved \notin DOMAIN files
    THEN [files |-> files,
          loaded |-> [exc |-> "FileNotFoundError", msg |-> "no_such_file", read |-> FALSE]]
    ELSE IF files[resolved].kind # "model"
    THEN [files |-> files,
          loaded |-> [exc |-> "UnpicklingError", msg |-> "not_a_model", read |-> TRUE]]
    ELSE [files |-> (resolved :> ForeignFile) @@ files,
          loaded |-> [exc |-> "", msg |-> "", read |-> TRUE,
                      det |-> FromBundle(files[resolved].data)]]
ReadModel(files, resolved) ==
    IF resolved \notin DOMAIN files
    THEN [files |-> files,
          loaded |-> [exc |-> "FileNotFoundError", msg |-> "no_such_file", read |-> FALSE]]
    ELSE IF files[resolved].kind # "model"
    THEN [files |-> files,
          loaded |-> [exc |-> "UnpicklingError", msg |-> "not_a_model", read |-> TRUE]]
    ELSE [files |-> files,
          loaded |-> [exc |-> "", msg |-> "", read |-> TRUE,
                      det |-> FromBundle(files[resolved].data)]]

ReadStep(p) ==
    /\ loaders[p].at = "read"
    /\ fs' = ReadModel(fs, Resolve(loaders[p].req.model_path)).files
    /\ loaders' = [loaders EXCEPT ![p] =
          [loaders[p] EXCEPT !.at = "answer",
             !.loaded = ReadModel(fs, Resolve(loaders[p].req.model_path)).loaded]]
    /\ UNCHANGED <<env, procVars, apiVars, preVars>>

\* lines 227 and 280-283, then main's print (lines 306-318)
Answer(req, loaded, files) ==
    Report(IF req.action = "load" THEN LoadAction(loaded, req.model_path, files)
           ELSE PredictAction(loaded, Preprocess(req.features).X, req.model_path,
                              files)).stdout

AnswerStep(p) ==
    /\ loaders[p].at = "answer"
    /\ loaders' = [loaders EXCEPT ![p] =
          [loaders[p] EXCEPT !.at = "done",
             !.out = Answer(loaders[p].req, loaders[p].loaded, fs)]]
    /\ UNCHANGED <<fs, env, procVars, apiVars, preVars>>

InitConc ==
    /\ fs \in {(Resolve(TrustedPath) :> ModelFile(Fit(NewDetector(10, 2), X, <<>>).det))
                  @@ (ForeignPath :> ForeignFile) : X \in ApiMatrices}
    /\ env = [deps |-> TRUE, py39 |-> TRUE]
    /\ pc = "idle"
    /\ stdin = EmptyStdin
    /\ run = NoRun
    /\ det = NewDetector(DefaultContamination, DefaultNEstimators)
    /\ call = NoCall
    /\ ret = NoRet
    /\ origin = <<>>
    /\ raw = AbsentFeatures
    /\ cooked = Pending
    /\ loaders = [p \in Loaders |-> NotStarted]
NextConc ==
    \/ \E p \in Loaders, req \in LoadRequests : BeginLoad(p, req)
    \/ \E p \in Loaders : TrustStep(p)
    \/ \E p \in Loaders : ExistsStep(p)
    \/ \E p \in Loaders : ReadStep(p)
    \/ \E p \in Loaders : AnswerStep(p)
SpecConc == InitConc /\ [][NextConc]_vars

InitLoad == InitCommon /\ env \in [deps : {TRUE}, py39 : BOOLEAN]
NextLoad == (\E input \in StdinOf(PathRequests) : Invoke(input)) \/ Exit
SpecLoad == InitLoad /\ [][NextLoad]_vars

Init == InitCommon /\ env \in [deps : BOOLEAN, py39 : {TRUE}]
Next == (\E input \in StdinOf(DataRequests) : Invoke(input)) \/ Exit
Spec == Init /\ [][Next]_vars

----------------------------------------------------------------------------
(* Vocabulary of the properties *)

IsRequest == pc = "done" /\ env.deps /\ stdin.kind = "request"

\* the action and the features the dispatcher works with
ActionOf(req) == IF req.action = AbsentAction THEN "fit_predict" ELSE req.action
SamplesOf(req) == IF req.features = AbsentFeatures THEN 0 ELSE Len(req.features.data)

\* the one object the process printed
Printed == run.stdout[1]
ErrorOf(o) == IF "error" \in DOMAIN o THEN o.error ELSE ""
MessageOf(o) == IF "message" \in DOMAIN o THEN o.message ELSE ""
StatusOf(o) == IF "status" \in DOMAIN o THEN o.status ELSE ""

\* the request makes the process call AnomalyDetector.load
CallsLoad(req) ==
    /\ Truthy(req.model_path)
    /\ \/ ActionOf(req) = "load"
       \/ ActionOf(req) = "predict" /\ SamplesOf(req) > 0

\* the trust policy, stated on the components of a resolved path
StartsWith(p, dir) == Len(dir) <= Len(p) /\ \A i \in 1..Len(dir) : p[i] = dir[i]
HasJoblibExtension(p) ==
    p # <<>> /\ p[Len(p)].ext = "joblib" /\ p[Len(p)].name # <<>>
PolicyAccepts(p) ==
    \/ StartsWith(p, <<Dir("app"), Dir("priv"), Dir("ml"), Dir("models")>>)
    \/ StartsWith(p, <<Dir("app"), Dir("priv")>>) /\ HasJoblibExtension(p)

UntrustedError ==
    [error |-> "processing_error", message |-> "untrusted_path", type |-> "ValueError"]
NotFoundError ==
    [error |-> "processing_error", message |-> "model_not_found",
     type |-> "FileNotFoundError"]

----------------------------------------------------------------------------
(* Properties *)

\* C1: every file joblib.load opens lies, once resolved, in the trusted
\* models directory or in the priv root with the .joblib extension; a load
\* of any other path, through the load action or through predict, prints
\* the untrusted-path error and opens no file.
C1_LoadOnlyTrusted ==
    IsRequest =>
        /\ \A p \in run.eff.reads : PolicyAccepts(p)
        /\ (CallsLoad(stdin.req) /\ ~PolicyAccepts(Resolve(stdin.req.model_path)))
              => (Printed = UntrustedError /\ run.eff.reads = {})

\* a predict of <trusted>/../../../../etc/passwd.joblib, which resolves to
\* an existing file outside both roots, was refused and nothing was read
C1_Witness ==
    /\ IsRequest
    /\ ActionOf(stdin.req) = "predict"
    /\ stdin.req.model_path.segs = TRUSTED_MODEL_DIR \o Ups(4) \o ForeignPath
    /\ Resolve(stdin.req.model_path) \in DOMAIN fs
    /\ Printed = UntrustedError
    /\ run.eff.reads = {}

\* C2: the model-not-found error is printed only for a path the policy
\* accepts; a load of a path that is untrusted and does not exist prints
\* the untrusted-path error.
C2_TrustBeforeExistence ==
    (IsRequest /\ CallsLoad(stdin.req)) =>
        /\ Printed = NotFoundError => PolicyAccepts(Resolve(stdin.req.model_path))
        /\ (~PolicyAccepts(Resolve(stdin.req.model_path))
            /\ Resolve(stdin.req.model_path) \notin DOMAIN fs)
              => Printed = UntrustedError

C2_Witness ==
    /\ IsRequest
    /\ ActionOf(stdin.req) = "load"
    /\ Truthy(stdin.req.model_path)
    /\ ~PolicyAccepts(Resolve(stdin.req.model_path))
    /\ Resolve(stdin.req.model_path) \notin DOMAIN fs
    /\ Printed = UntrustedError

\* C3: a detector loaded from a file that save wrote predicts, on every
\* matrix, exactly what the saved detector predicts (the same result or
\* the same error); and the load of such a file at a path the policy
\* accepts succeeds.
C3_SaveLoadRoundTrip ==
    (call.op = "load" /\ Resolve(call.path) \in DOMAIN origin) =>
        /\ PolicyAccepts(Resolve(call.path)) => ret.exc = ""
        /\ ret.exc = "" =>
             \A X \in ApiMatrices :
                Predict(det, X) = Predict(origin[Resolve(call.path)], X)

C3_Witness ==
    /\ call.op = "load"
    /\ ret.exc = ""
    /\ Resolve(call.path) \in DOMAIN origin
    /\ \E X \in ApiMatrices : Predict(det, X).exc = ""

\* C4: predict on a detector that is not fitted raises the not-fitted
\* error, whatever state its scaler and forest are in, and returns no
\* result.
C4_PredictUnfitted ==
    (call.op = "predict" /\ ~det.is_fitted) =>
        ret = [exc |-> "ValueError", msg |-> "not_fitted"]

\* predict was called on a detector that was never fitted
C4_Witness ==
    /\ call.op = "predict"
    /\ ~det.is_fitted
    /\ det.scaler.state = "none"
    /\ ret.exc = "ValueError"

\* C5: save on a detector that is not fitted raises the unfitted-model
\* error and leaves the file system as it was.
C5_SaveUnfitted ==
    [][(call'.op = "save" /\ ~det.is_fitted) =>
          /\ ret' = [exc |-> "ValueError", msg |-> "unfitted_model"]
          /\ fs' = fs]_vars

\* save was called on an unfitted detector
C5_Witness ==
    /\ call.op = "save"
    /\ ~det.is_fitted
    /\ ret.msg = "unfitted_model"
    /\ Resolve(call.path) \notin DOMAIN fs

\* C6: every run prints exactly one JSON object, an error object or a
\* result object, and no exception leaves main.
C6_OneObject ==
    pc = "done" =>
        /\ Len(run.stdout) = 1
        /\ ~run.raised
        /\ ("error" \in DOMAIN Printed) # ("status" \in DOMAIN Printed)

\* a request that raised inside process_input was answered by one object
C6_Witness ==
    /\ IsRequest
    /\ Len(run.stdout) = 1
    /\ ErrorOf(Printed) = "processing_error"

\* C7, as claimed: the exit status is non-zero only for malformed input or
\* an exception that left main, and every error object comes with status 0.
C7_Original ==
    pc = "done" =>
        /\ run.exit # 0 => (stdin.kind \in {"badjson", "nonobject"} \/ run.raised)
        /\ ErrorOf(Printed) # "" => run.exit = 0

\* C7, amended: the exit status is non-zero only when a required library
\* is missing (status 1, the one object printed being missing_dependency);
\* every other error, malformed input included, is printed as an error
\* object with status 0.
C7_ExitStatus ==
    pc = "done" =>
        /\ run.exit # 0 =>
              (~env.deps /\ run.exit = 1 /\ ErrorOf(Printed) = "missing_dependency")
        /\ (ErrorOf(Printed) \notin {"", "missing_dependency"}) => run.exit = 0

\* a model-not-found error was printed and the status is 0
C7_Witness ==
    /\ IsRequest
    /\ Printed = NotFoundError
    /\ run.exit = 0

\* C8: a fit, predict, fit_predict or save request with zero samples
\* prints the no_features error; nothing is fitted, read or written.
C8_EmptyInput ==
    (IsRequest /\ SamplesOf(stdin.req) = 0
       /\ ActionOf(stdin.req) \in {"fit", "predict", "fit_predict", "save"}) =>
        /\ Printed = [error |-> "no_features", message |-> "No feature data provided"]
        /\ run.eff = NoEffects

\* a save request with features [] and a model path
C8_Witness ==
    /\ IsRequest
    /\ stdin.req.action = "save"
    /\ stdin.req.features = Flat(<<>>)
    /\ Truthy(stdin.req.model_path)
    /\ ErrorOf(Printed) = "no_features"
    /\ DOMAIN fs = {ForeignPath}

\* the value a cell is to have after preprocessing
Expected(c) == IF c.k \in {"num", "strnum"} THEN c.v ELSE 0

\* C9, as claimed: preprocessing a non-empty features value does not fail
\* and yields a matrix of the same shape, 0 where the cell was null,
\* unparseable, NaN or infinite, the cell's number elsewhere.
C9_Original ==
    cooked # Pending =>
        /\ cooked.exc = ""
        /\ Len(cooked.X) = Len(Reshape(raw))
        /\ \A i \in 1..Len(cooked.X) :
              /\ Len(cooked.X[i]) = Len(Reshape(raw)[i])
              /\ \A j \in 1..Len(cooked.X[i]) :
                    cooked.X[i][j] = Expected(Reshape(raw)[i][j])

\* C10, as claimed: in a successful result the prediction of a sample is
\* -1 (anomaly) exactly when its raw score lies beyond the returned
\* threshold on the anomalous (lower) side.
C10_Original ==
    (IsRequest /\ StatusOf(Printed) = "success") =>
        \A i \in 1..Len(Printed.predictions) :
            (Printed.predictions[i] = -1) <=> (Printed.raw_scores[i] < Printed.threshold)

\* the samples of a printed result
SamplesIn(o) == 1..Len(o.raw_scores)

\* C11, as claimed: in a successful result every confidence lies in [0, 1],
\* a sample on the decision boundary (decision function 0, where the
\* prediction turns) has confidence 0, and of two samples on the same side
\* of the boundary the one farther from it (the more anomalous of two
\* anomalies, the more normal of two normal samples) has no lower
\* confidence.
C11_Original ==
    (IsRequest /\ StatusOf(Printed) = "success") =>
        \A i \in SamplesIn(Printed) :
            /\ Printed.confidence[i] \in 0..1000
            /\ Printed.raw_scores[i] = 0 => Printed.confidence[i] = 0
            /\ \A j \in SamplesIn(Printed) :
                  (/\ Printed.predictions[i] = Printed.predictions[j]
                   /\ Abs(Printed.raw_scores[i]) <= Abs(Printed.raw_scores[j]))
                      => Printed.confidence[i] <= Printed.confidence[j]

\* C12: in a successful result every anomaly probability lies in [0, 1]; a
\* sample with the lower decision function value (the more anomalous one)
\* never has the lower probability; a sample on the boundary (decision
\* function 0) has probability 0.5 exactly, an anomaly at least 0.5 and a
\* normal sample at most 0.5.
C12_Probability ==
    (IsRequest /\ StatusOf(Printed) = "success") =>
        \A i \in SamplesIn(Printed) :
            /\ Printed.anomaly_scores[i] \in 0..1000
            /\ Printed.raw_scores[i] = 0 => Printed.anomaly_scores[i] = 500
            /\ Printed.predictions[i] = -1 => Printed.anomaly_scores[i] >= 500
            /\ Printed.predictions[i] = 1 => Printed.anomaly_scores[i] <= 500
            /\ \A j \in SamplesIn(Printed) :
                  Printed.raw_scores[i] <= Printed.raw_scores[j]
                      => Printed.anomaly_scores[i] >= Printed.anomaly_scores[j]

\* one result holds a sample on the boundary, with probability 0.5, and an
\* anomaly with a higher probability
C12_Witness ==
    /\ IsRequest
    /\ StatusOf(Printed) = "success"
    /\ \E i, j \in SamplesIn(Printed) :
          /\ Printed.raw_scores[i] = 0
          /\ Printed.anomaly_scores[i] = 500
          /\ Printed.predictions[j] = -1
          /\ Printed.anomaly_scores[j] > 500

ResultFields == {"predictions", "anomaly_scores", "confidence", "raw_scores", "threshold"}
PerSampleFields == {"predictions", "anomaly_scores", "confidence", "raw_scores"}

\* the hyperparameter a request gives, or its default
Defaulted(v, default) == IF v = AbsentNumber THEN default ELSE v

\* the numeric matrix of a request and the detector that scores it: the one
\* loaded from model_path for predict, the one fitted on the matrix otherwise
MatrixOf(req) == Preprocess(req.features).X
DetectorOf(req, files) ==
    IF ActionOf(req) = "predict" THEN FromBundle(files[Resolve(req.model_path)].data)
    ELSE Fit(NewDetector(Defaulted(req.contamination, DefaultContamination),
                         Defaulted(req.n_estimators, DefaultNEstimators)),
             MatrixOf(req), req.feature_names).det

\* entry i of a result, as the result of a batch of one sample
EntryOf(o, i) ==
    [predictions |-> <<o.predictions[i]>>, anomaly_scores |-> <<o.anomaly_scores[i]>>,
     confidence |-> <<o.confidence[i]>>, raw_scores |-> <<o.raw_scores[i]>>,
     threshold |-> o.threshold]

\* C13: a printed object holds all of predictions, anomaly_scores,
\* confidence, raw_scores and threshold or none of them; a predict or
\* fit_predict answered with status success holds them all, n_samples is
\* the number of samples of the request, each of the four arrays has that
\* many entries, and entry i is what scoring sample i on its own gives.
C13_CompleteBatch ==
    pc = "done" =>
        /\ (DOMAIN Printed \cap ResultFields) \in {{}, ResultFields}
        /\ (IsRequest /\ StatusOf(Printed) = "success") =>
              /\ ResultFields \subseteq DOMAIN Printed
              /\ Printed.n_samples = Len(MatrixOf(stdin.req))
              /\ \A f \in PerSampleFields : Len(Printed[f]) = Printed.n_samples
              /\ \A i \in 1..Printed.n_samples :
                    Predict(DetectorOf(stdin.req, fs), <<MatrixOf(stdin.req)[i]>>).res
                        = EntryOf(Printed, i)

\* a fit_predict of three samples was answered with three entries per array
C13_Witness ==
    /\ IsRequest
    /\ ActionOf(stdin.req) = "fit_predict"
    /\ StatusOf(Printed) = "success"
    /\ Printed.n_samples = 3
    /\ Len(Printed.confidence) = 3
    /\ Printed.predictions[3] # Printed.predictions[1]

\* C14: a call of predict leaves the detector as it was: scaler (mean and
\* scale), forest and its offset, feature names, hyperparameters and the
\* fitted flag; so after any number of predict calls they are what fit or
\* load left.
C14_PredictKeepsState ==
    [][call'.op = "predict" => det' = det]_vars

\* predict succeeded on a matrix whose own mean and scale differ from the
\* stored ones
C14_Witness ==
    /\ call.op = "predict"
    /\ ret.exc = ""
    /\ det.is_fitted
    /\ ScalerFit(call.X) # det.scaler

\* the number of samples the dispatcher hands on: a flat array is one sample
RowsAfter(req) == IF SamplesOf(req) = 0 THEN 0 ELSE Len(Reshape(req.features))

\* C15, as claimed: a fit, fit_predict or save request with n_estimators 0,
\* or with fewer than 2 samples, is answered with an error; no fit
\* completes and no file is written, model_path or not.
C15_Original ==
    (/\ IsRequest
     /\ ActionOf(stdin.req) \in {"fit", "fit_predict", "save"}
     /\ \/ Defaulted(stdin.req.n_estimators, DefaultNEstimators) = 0
        \/ RowsAfter(stdin.req) < 2) =>
        /\ ErrorOf(Printed) # ""
        /\ ~run.eff.fitted
        /\ run.eff.writes = {}

\* C16, as claimed: after a fit that returned, the detector has as many
\* feature names as the training matrix has columns, and so has every
\* persisted model.
C16_Original ==
    /\ (call.op = "fit" /\ ret.exc = "") => Len(det.feature_names) = NCols(call.X)
    /\ \A p \in ModelFilesOf(fs) :
          Len(fs[p].data.feature_names) = Len(fs[p].data.scaler.mean)

\* C17: a save, load or predict request without a model_path is answered
\* with an error object; nothing is fitted, no file is read and none is
\* written.
C17_MissingPath ==
    (/\ IsRequest
     /\ ActionOf(stdin.req) \in {"save", "load", "predict"}
     /\ ~Truthy(stdin.req.model_path)) =>
        /\ ErrorOf(Printed) # ""
        /\ run.eff = NoEffects

\* a save request with samples and no model_path
C17_Witness ==
    /\ IsRequest
    /\ stdin.req.action = "save"
    /\ ~Truthy(stdin.req.model_path)
    /\ RowsAfter(stdin.req) = 3
    /\ ErrorOf(Printed) = "invalid_action"
    /\ run.eff = NoEffects

KnownActions == {"fit", "predict", "fit_predict", "save", "load"}

\* C18, as claimed: a request with samples whose action is none of fit,
\* predict, fit_predict, save, load is answered with the invalid_action
\* error; nothing is fitted, read or written.
C18_Original ==
    (/\ IsRequest
     /\ ActionOf(stdin.req) \notin KnownActions
     /\ RowsAfter(stdin.req) > 0) =>
        /\ ErrorOf(Printed) = "invalid_action"
        /\ run.eff = NoEffects

\* the processes that loaded the same file hold the same model, and those
\* that answered the same request gave the same answer
SameModel ==
    \A p, q \in Loaders :
        /\ (/\ loaders[p].loaded.exc = ""
            /\ loaders[q].loaded.exc = ""
            /\ Resolve(loaders[p].req.model_path) = Resolve(loaders[q].req.model_path))
              => loaders[p].loaded.det = loaders[q].loaded.det
        /\ (/\ loaders[p].at = "done"
            /\ loaders[q].at = "done"
            /\ loaders[p].req = loaders[q].req)
              => loaders[p].out = loaders[q].out

\* C19: no step of a process that loads a model, for a load request or for
\* a predict request with a model_path, changes the file system; in every
\* interleaving the processes that load the same file obtain the same
\* model.
C19_LoadReadOnly ==
    [][fs' = fs /\ SameModel']_vars

\* one process has loaded the model and predicted with it while another,
\* which reached the file by a different path, stands before joblib.load
C19_Witness ==
    \E p, q \in Loaders :
        /\ loaders[p].at = "done"
        /\ loaders[p].req.action = "predict"
        /\ StatusOf(loaders[p].out[1]) = "success"
        /\ loaders[q].at = "read"
        /\ loaders[q].req.model_path # loaders[p].req.model_path
        /\ Resolve(loaders[q].req.model_path) = Resolve(loaders[p].req.model_path)

\* the request's features are a flat array of at least one number
FlatNumbers(req) ==
    /\ req.features.dim = 1
    /\ Len(req.features.data) > 0
    /\ \A c \in CellsOf(req.features) : c.k \in {"num", "nan", "inf", "ninf"}

\* C20: a request whose features are a flat array of N numbers is handled as
\* one sample of N features: a response that reports n_samples reports 1,
\* one that reports n_features reports N, every per-sample array it holds
\* has one entry; and a fit_predict with valid hyperparameters is answered
\* with such a result.
C20_FlatIsOneSample ==
    (IsRequest /\ FlatNumbers(stdin.req)) =>
        /\ "n_samples" \in DOMAIN Printed => Printed.n_samples = 1
        /\ "n_features" \in DOMAIN Printed
              => Printed.n_features = Len(stdin.req.features.data)
        /\ \A f \in PerSampleFields \cap DOMAIN Printed : Len(Printed[f]) = 1
        /\ (/\ ActionOf(stdin.req) = "fit_predict"
            /\ ForestParamsOk(NewForest(
                   Defaulted(stdin.req.n_estimators, DefaultNEstimators),
                   Defaulted(stdin.req.contamination, DefaultContamination))))
              => (/\ StatusOf(Printed) = "success"
                  /\ {"n_samples", "n_features"} \subseteq DOMAIN Printed)

\* a fit_predict of the flat array [1, 2, 3] was answered with one sample
\* of three features
C20_Witness ==
    /\ IsRequest
    /\ ActionOf(stdin.req) = "fit_predict"
    /\ stdin.req.features = Flat(<<Num(1), Num(2), Num(3)>>)
    /\ StatusOf(Printed) = "success"
    /\ Printed.n_samples = 1
    /\ Printed.n_features = 3
    /\ Len(Printed.predictions) = 1

\* p lies in a sibling of the trusted directory whose name begins with the
\* trusted directory's name, as <priv>/ml/models_evil/x.bin does
InLookalikeSibling(p) ==
    /\ Len(p) > Len(TRUSTED_MODEL_DIR)
    /\ SubSeq(p, 1, Len(ScriptDir)) = ScriptDir
    /\ p[Len(TRUSTED_MODEL_DIR)] # TRUSTED_MODEL_DIR[Len(TRUSTED_MODEL_DIR)]
    /\ Head(p[Len(TRUSTED_MODEL_DIR)].name) = "models"

\* C21: on the is_relative_to branch and on the commonpath branch alike, a
\* load of a path in a look-alike sibling of the trusted directory that has
\* not the .joblib extension is refused as untrusted and reads nothing,
\* while a path whose components begin with those of the trusted directory
\* is never refused as untrusted.
C21_ByComponents ==
    (IsRequest /\ CallsLoad(stdin.req)) =>
        /\ (/\ InLookalikeSibling(Resolve(stdin.req.model_path))
            /\ ~HasJoblibExtension(Resolve(stdin.req.model_path)))
              => (Printed = UntrustedError /\ run.eff.reads = {})
        /\ StartsWith(Resolve(stdin.req.model_path), TRUSTED_MODEL_DIR)
              => Printed # UntrustedError

\* on the commonpath branch a predict of <trusted>/../models_evil/x.bin was
\* refused
C21_Witness ==
    /\ IsRequest
    /\ ~env.py39
    /\ ActionOf(stdin.req) = "predict"
    /\ Resolve(stdin.req.model_path) = ScriptDir \o <<ModelsEvil, File("x", "bin")>>
    /\ Printed = UntrustedError
    /\ run.eff.reads = {}

\* C22: no run prints the not-fitted error of predict or the unfitted-model
\* error of save: the dispatcher reaches predict and save only after a fit
\* or a load that returned.
C22_GuardsUnreachable ==
    (pc = "done" /\ ErrorOf(Printed) = "processing_error") =>
        Printed.message \notin {"not_fitted", "unfitted_model"}

\* a fit_predict whose fit raised was answered with the error of the fit
C22_Witness ==
    /\ IsRequest
    /\ ActionOf(stdin.req) = "fit_predict"
    /\ RowsAfter(stdin.req) = 3
    /\ stdin.req.n_estimators = 0
    /\ MessageOf(Printed) = "invalid_parameter"
    /\ ~run.eff.fitted

\* the request was answered with the status of a success
Succeeded == StatusOf(Printed) \in {"success", "loaded", "fitted", "saved"}

\* C23: a fit or save request with samples and a model_path writes the
\* model to the resolved path whether the trust policy accepts the path or
\* not; a load or predict request naming a path that holds a persisted
\* model succeeds exactly when the policy accepts the path, and is refused
\* as untrusted otherwise.
C23_SaveUnchecked ==
    IsRequest =>
        /\ (/\ ActionOf(stdin.req) \in {"fit", "save"}
            /\ Truthy(stdin.req.model_path)
            /\ RowsAfter(stdin.req) > 0) =>
              /\ Succeeded
              /\ run.eff.writes = {Resolve(stdin.req.model_path)}
              /\ Resolve(stdin.req.model_path) \in ModelFilesOf(fs)
        /\ (/\ CallsLoad(stdin.req)
            /\ Resolve(stdin.req.model_path) \in ModelFilesOf(fs)) =>
              /\ Succeeded <=> PolicyAccepts(Resolve(stdin.req.model_path))
              /\ ~Succeeded => Printed = UntrustedError

\* a model was persisted to a path the policy rejects, and the load of
\* that path was refused
C23_Witness ==
    /\ IsRequest
    /\ ActionOf(stdin.req) = "load"
    /\ Resolve(stdin.req.model_path) \in ModelFilesOf(fs)
    /\ ~PolicyAccepts(Resolve(stdin.req.model_path))
    /\ Printed = UntrustedError

\* the contamination and n_estimators fields requests come with
Hyperparameters == {<<r.contamination, r.n_estimators>> : r \in DataRequests}

\* the request with other hyperparameters
WithHyperparameters(req, h) == [req EXCEPT !.contamination = h[1], !.n_estimators = h[2]]

\* C24: the response to a predict request with a model_path is the response
\* the same request gets, on the same file system, with any other
\* contamination and n_estimators fields.
C24_PredictIgnoresHyperparameters ==
    (IsRequest /\ ActionOf(stdin.req) = "predict" /\ Truthy(stdin.req.model_path)) =>
        \A h \in Hyperparameters :
            main(RequestOn(WithHyperparameters(stdin.req, h)), fs, env.deps,
                 env.py39).stdout = run.stdout

\* a predict request whose own n_estimators is 0 was answered with a result
C24_Witness ==
    /\ IsRequest
    /\ ActionOf(stdin.req) = "predict"
    /\ Truthy(stdin.req.model_path)
    /\ stdin.req.n_estimators = 0
    /\ stdin.req.contamination = 0
    /\ StatusOf(Printed) = "success"

\* the feature_names and model_path fields requests come with
Incidentals == {<<r.feature_names, r.model_path>> : r \in DataRequests}

\* C25: the response to a fit_predict request is the response that a
\* request with the same features, contamination and n_estimators gets
\* from a process that runs before any model file exists, whatever its
\* feature_names and model_path; and the fit_predict leaves the file
\* system as it found it.
C25_FitDeterministic ==
    (IsRequest /\ ActionOf(stdin.req) = "fit_predict") =>
        /\ run.eff.writes = {}
        /\ \A v \in Incidentals :
              main(RequestOn([stdin.req EXCEPT !.feature_names = v[1],
                                               !.model_path = v[2]]),
                   (ForeignPath :> ForeignFile), env.deps, env.py39).stdout
                = run.stdout

\* a fit_predict that ran after an earlier request had saved a model
C25_Witness ==
    /\ IsRequest
    /\ ActionOf(stdin.req) = "fit_predict"
    /\ ModelFilesOf(fs) # {}
    /\ StatusOf(Printed) = "success"
    /\ Printed.n_samples = 3

====
